---------------------------- MODULE Spec2Model ----------------------------
(***************************************************************************)
(* Model of main.py: the hold-to-record capture session (start_record,     *)
(* the sounddevice callback, stop_record), the waveform finalizer inside   *)
(* stop_record, the transcription pipeline (transcribe) with its nested    *)
(* root.update(), and the transcript store / history listbox.              *)
(*                                                                         *)
(* Two threads exist: the Tk main thread, which runs the handlers, and the *)
(* PortAudio thread, which runs callback.  The main thread dispatches an   *)
(* event handler either from root.mainloop() or from the root.update()     *)
(* call at the top of transcribe; the latter makes handlers re-entrant.    *)
(*                                                                         *)
(* Samples are integers k standing for the float32 value k / SampleDen.    *)
(* The clock counts ticks of 1 / TicksPerSec second.                       *)
(***************************************************************************)
EXTENDS Integers, Sequences, FiniteSets

\* ------------------------------------------------------------- bounds
MaxSessions == 2      \* start_record calls explored
MaxBlocks   == 2      \* blocks appended to buffer explored
MaxDepth    == 2      \* nested transcribe activations explored
MaxClock    == 3      \* last clock tick explored
TicksPerSec == 2      \* clock ticks per second of identifier granularity
BlockLen    == 1      \* samples per block
MaxAmp      == 2      \* largest sample magnitude, in units of 1/SampleDen
MaxOld      == 11     \* records left in transcripts/ by earlier runs
SampleDen   == 4      \* sample k stands for the float k/SampleDen

\* -------------------------------------------------- program constants
Int16Max     == 32767
Gain         == 300
HistoryLimit == 10
LevelDen     == 100   \* level is kept in hundredths: LevelDen stands for 1.0

NaNCasts == {0, -32768}   \* what float NaN -> int16 yields, by platform

Samples   == (0 - MaxAmp)..MaxAmp
Blocks    == [1..BlockLen -> Samples]
\* blocks the microphone delivers in the state machine Spec: silence and
\* a full-amplitude block
MicBlocks == {b \in Blocks : \A i \in 1..BlockLen : b[i] = b[1] /\ b[1] \in {0, MaxAmp}}
Texts     == {"hello", "world"}
Streams   == 1..MaxSessions
NoBlock   == <<>>
NoText    == ""
\* no file: session 0.  divisor is the peak line 89 divided the samples by
NoFile    == [session |-> 0, samples |-> <<>>, divisor |-> 0]

VARIABLES
    recording,    \* global recording
    buffer,       \* global buffer: sequence of blocks
    stream,       \* global stream: 0 is None, else the id of the InputStream
    level,        \* global level, in 1/LevelDen
    status,       \* tk.StringVar status
    canvas,       \* level last drawn by draw_wave
    history,      \* the history listbox
    shown,        \* text of the window opened last by show_text
    open,         \* streams started and not stopped (PortAudio side)
    cb,           \* per stream: the block of a callback past `if recording`
    artifact,     \* the file recordings/record.wav
    transcripts,  \* the directory transcripts/: file name -> text
    now,          \* wall clock, in ticks
    stack,        \* activations of stop_record -> transcribe on the main thread
    session,      \* number of start_record calls so far
    arrived,      \* samples appended since buffer was last cleared
    statusAtStart,\* status read at entry of the latest start_record
    last,         \* the handler that finished last and how
    lastEngine    \* the latest model.transcribe call

vars == <<recording, buffer, stream, level, status, canvas, history, shown,
          open, cb, artifact, transcripts, now, stack, session, arrived,
          statusAtStart, last, lastEngine>>

\* ------------------------------------------------------------ helpers
Abs(x) == IF x < 0 THEN 0 - x ELSE x
Min(a, b) == IF a < b THEN a ELSE b

RECURSIVE SumSq(_)
SumSq(s) == IF s = <<>> THEN 0 ELSE s[1] * s[1] + SumSq(Tail(s))

RECURSIVE IsqrtFrom(_, _)
IsqrtFrom(n, r) == IF (r + 1) * (r + 1) > n THEN r ELSE IsqrtFrom(n, r + 1)
Isqrt(n) == IsqrtFrom(n, 0)

\* callback, lines 63-64: level = min(sqrt(mean(indata**2)) * 300, 1.0)
Level(indata) ==
    IF Gain * Gain * SumSq(indata) >= Len(indata) * SampleDen * SampleDen
    THEN LevelDen
    ELSE Isqrt((Gain * Gain * SumSq(indata) * LevelDen * LevelDen)
               \div (Len(indata) * SampleDen * SampleDen))

\* (blocks joined last to first: the order bug the finalizer must not have)
RECURSIVE ConcatenateReversed(_)
ConcatenateReversed(frames) ==
    IF frames = <<>> THEN <<>>
    ELSE ConcatenateReversed(Tail(frames)) \o frames[1]

\* np.concatenate(buffer, axis=0)
RECURSIVE Concatenate(_)
Concatenate(frames) ==
    IF frames = <<>> THEN <<>> ELSE frames[1] \o Concatenate(Tail(frames))

\* np.max(np.abs(audio))
RECURSIVE Peak(_)
Peak(audio) ==
    IF audio = <<>> THEN 0
    ELSE LET m == Peak(Tail(audio))
         IN  IF Abs(audio[1]) > m THEN Abs(audio[1]) ELSE m

\* (s / p * 32767).astype(np.int16) for p # 0: the cast drops the fraction
Quantize(s, p) ==
    IF s < 0 THEN 0 - ((Abs(s) * Int16Max) \div p) ELSE (s * Int16Max) \div p

\* stop_record, lines 88-90.  With a zero peak line 89 computes 0/0 = NaN for
\* every sample, and the cast of NaN to int16 is undefined: every sample
\* becomes the same platform-dependent value.
Finalize(frames) ==
    LET audio == Concatenate(frames)
        p     == Peak(audio)
    IN  IF p = 0
        THEN {[i \in 1..Len(audio) |-> v] : v \in NaNCasts}
        ELSE {[i \in 1..Len(audio) |-> Quantize(audio[i], p)]}

\* strftime("%Y%m%d_%H%M%S.txt"): the second of the instant, as a fixed
\* width digit string
Fname(t) == LET sec == t \div TicksPerSec IN <<sec \div 10, sec % 10>>

\* str < str
LexLess(a, b) ==
    \E i \in 1..Min(Len(a), Len(b)) :
        /\ a[i] < b[i]
        /\ \A j \in 1..(i - 1) : a[j] = b[j]

\* (sorted(names) without reverse=True: oldest first)
RECURSIVE SortedAscending(_)
SortedAscending(names) ==
    IF names = {} THEN <<>>
    ELSE LET m == CHOOSE x \in names : \A y \in names : ~LexLess(y, x)
         IN  <<m>> \o SortedAscending(names \ {m})

\* sorted(names, reverse=True)
RECURSIVE SortedReverse(_)
SortedReverse(names) ==
    IF names = {} THEN <<>>
    ELSE LET m == CHOOSE x \in names : \A y \in names : ~LexLess(x, y)
         IN  <<m>> \o SortedReverse(names \ {m})

\* (the whole sorted listing, without the [:10] of line 174)
refresh_history_untruncated(dir) == SortedReverse(DOMAIN dir)

\* refresh_history: files[:10] of the sorted listing
refresh_history(dir) ==
    LET files == SortedReverse(DOMAIN dir)
    IN  SubSeq(files, 1, Min(Len(files), HistoryLimit))

\* the main thread is in mainloop() or in the root.update() of transcribe
CanDispatch == IF stack = <<>> THEN TRUE ELSE stack[Len(stack)].pc = "update"

InFlight == Len(stack)

\* ---------------------------------------------------------------- Init
Init ==
    /\ recording = FALSE
    /\ buffer = <<>>
    /\ stream = 0
    /\ level = 0
    /\ status = "Hold to record"
    /\ canvas = 0
    /\ transcripts = <<>>
    /\ history = refresh_history(<<>>)
    /\ shown = NoText
    /\ open = {}
    /\ cb = [s \in Streams |-> NoBlock]
    /\ artifact = NoFile
    /\ now = 0
    /\ stack = <<>>
    /\ session = 0
    /\ arrived = <<>>
    /\ statusAtStart = "Hold to record"
    /\ last = [op |-> "none", result |-> "none"]
    /\ lastEngine = [job |-> 0, read |-> 0, depth |-> 0]

\* ------------------------------------------------------------- actions
\* (a start_record without the `buffer = []` of line 55)
start_record_keeps_buffer ==
    /\ CanDispatch
    /\ session < MaxSessions
    /\ session' = session + 1
    /\ statusAtStart' = status
    /\ recording' = TRUE
    /\ status' = "Recording..."
    /\ \/ /\ stream' = session + 1
          /\ open' = open \cup {session + 1}
          /\ last' = [op |-> "start_record", result |-> "ok"]
       \/ /\ UNCHANGED <<stream, open>>
          /\ last' = [op |-> "start_record", result |-> "PortAudioError"]
    /\ UNCHANGED <<buffer, arrived, level, canvas, history, shown, cb,
                   artifact, transcripts, now, stack, lastEngine>>

\* start_record, lines 53-72.  sd.InputStream(...) raises PortAudioError
\* when no input device can be opened; Tk reports the exception and goes on.
start_record ==
    /\ CanDispatch
    /\ session < MaxSessions
    /\ session' = session + 1
    /\ statusAtStart' = status
    /\ buffer' = <<>>
    /\ arrived' = <<>>
    /\ recording' = TRUE
    /\ status' = "Recording..."
    /\ \/ /\ stream' = session + 1
          /\ open' = open \cup {session + 1}
          /\ last' = [op |-> "start_record", result |-> "ok"]
       \/ /\ UNCHANGED <<stream, open>>
          /\ last' = [op |-> "start_record", result |-> "PortAudioError"]
    /\ UNCHANGED <<level, canvas, history, shown, cb, artifact, transcripts,
                   now, stack, lastEngine>>

\* callback, lines 59-61: a block arrives and `if recording` is passed
callback_enter(s, indata) ==
    /\ s \in open
    /\ cb[s] = NoBlock
    /\ recording
    /\ Len(buffer) + Cardinality({t \in Streams : cb[t] # NoBlock}) < MaxBlocks
    /\ cb' = [cb EXCEPT ![s] = indata]
    /\ UNCHANGED <<recording, buffer, stream, level, status, canvas, history,
                   shown, open, artifact, transcripts, now, stack, session,
                   arrived, statusAtStart, last, lastEngine>>

\* callback, lines 62-64
callback_append(s) ==
    /\ cb[s] # NoBlock
    /\ buffer' = Append(buffer, cb[s])
    /\ arrived' = arrived \o cb[s]
    /\ level' = Level(cb[s])
    /\ cb' = [cb EXCEPT ![s] = NoBlock]
    /\ UNCHANGED <<recording, stream, status, canvas, history, shown, open,
                   artifact, transcripts, now, stack, session, statusAtStart,
                   last, lastEngine>>

\* (a stop_record without the `if not recording: return` of lines 76-77)
stop_record_unguarded ==
    /\ CanDispatch
    /\ \/ /\ stream = 0
          /\ recording' = FALSE
          /\ last' = [op |-> "stop_record", result |-> "AttributeError"]
          /\ UNCHANGED <<open, canvas, status, artifact, stack>>
       \/ /\ stream # 0
          /\ cb[stream] = NoBlock
          /\ buffer = <<>>
          /\ recording' = FALSE
          /\ open' = open \ {stream}
          /\ canvas' = 0
          /\ status' = "Ready"
          /\ last' = [op |-> "stop_record", result |-> "empty"]
          /\ UNCHANGED <<artifact, stack>>
       \/ /\ stream # 0
          /\ cb[stream] = NoBlock
          /\ buffer # <<>>
          /\ Len(stack) < MaxDepth
          /\ recording' = FALSE
          /\ open' = open \ {stream}
          /\ canvas' = 0
          /\ \E audio \in Finalize(buffer) :
                artifact' = [session |-> session, samples |-> audio,
                             divisor |-> Peak(Concatenate(buffer))]
          /\ status' = "Transcribing..."
          /\ stack' = Append(stack, [session |-> session, pc |-> "update",
                                     result |-> NoText])
          /\ last' = [op |-> "stop_record", result |-> "transcribe"]
    /\ UNCHANGED <<buffer, stream, level, history, shown, cb, transcripts,
                   now, session, arrived, statusAtStart, lastEngine>>

\* stop_record, lines 74-94, with line 100 of the transcribe it calls.
\* stream.stop() returns only when the stream's callback has returned;
\* stop() and close() on an already closed stream ignore the error.
stop_record ==
    /\ CanDispatch
    /\ \/ /\ ~recording
          /\ last' = [op |-> "stop_record", result |-> "noop"]
          /\ UNCHANGED <<recording, open, canvas, status, artifact, stack>>
       \/ /\ recording
          /\ stream = 0
          /\ recording' = FALSE
          /\ last' = [op |-> "stop_record", result |-> "AttributeError"]
          /\ UNCHANGED <<open, canvas, status, artifact, stack>>
       \/ /\ recording
          /\ stream # 0
          /\ cb[stream] = NoBlock
          /\ buffer = <<>>
          /\ recording' = FALSE
          /\ open' = open \ {stream}
          /\ canvas' = 0
          /\ status' = "Ready"
          /\ last' = [op |-> "stop_record", result |-> "empty"]
          /\ UNCHANGED <<artifact, stack>>
       \/ /\ recording
          /\ stream # 0
          /\ cb[stream] = NoBlock
          /\ buffer # <<>>
          /\ Len(stack) < MaxDepth
          /\ recording' = FALSE
          /\ open' = open \ {stream}
          /\ canvas' = 0
          /\ \E audio \in Finalize(buffer) :
                artifact' = [session |-> session, samples |-> audio,
                             divisor |-> Peak(Concatenate(buffer))]
          /\ status' = "Transcribing..."
          /\ stack' = Append(stack, [session |-> session, pc |-> "update",
                                     result |-> NoText])
          /\ last' = [op |-> "stop_record", result |-> "transcribe"]
    /\ UNCHANGED <<buffer, stream, level, history, shown, cb, transcripts,
                   now, session, arrived, statusAtStart, lastEngine>>

Pop(s) == SubSeq(s, 1, Len(s) - 1)
Top(s) == s[Len(s)]

\* transcribe, line 111: model.transcribe(path, **args) returns a result
transcribe_engine_returns ==
    /\ stack # <<>>
    /\ Top(stack).pc = "update"
    /\ \E text \in Texts :
          stack' = [stack EXCEPT ![Len(stack)] =
                       [@ EXCEPT !.pc = "save", !.result = text]]
    /\ lastEngine' = [job |-> Top(stack).session, read |-> artifact.session,
                      depth |-> InFlight]
    /\ UNCHANGED <<recording, buffer, stream, level, status, canvas, history,
                   shown, open, cb, artifact, transcripts, now, session,
                   arrived, statusAtStart, last>>

\* (a transcribe that opens the record file before the engine call: a
\* failing engine then leaves an empty record behind)
transcribe_engine_raises_after_open ==
    /\ stack # <<>>
    /\ Top(stack).pc = "update"
    /\ stack' = Pop(stack)
    /\ transcripts' = [f \in DOMAIN transcripts \cup {Fname(now)} |-> NoText]
    /\ lastEngine' = [job |-> Top(stack).session, read |-> artifact.session,
                      depth |-> InFlight]
    /\ last' = [op |-> "transcribe", result |-> "EngineError"]
    /\ UNCHANGED <<recording, buffer, stream, level, status, canvas, history,
                   shown, open, cb, artifact, now, session, arrived,
                   statusAtStart>>

\* transcribe, line 111: model.transcribe raises; the exception leaves
\* transcribe and stop_record and is reported by Tk
transcribe_engine_raises ==
    /\ stack # <<>>
    /\ Top(stack).pc = "update"
    /\ stack' = Pop(stack)
    /\ lastEngine' = [job |-> Top(stack).session, read |-> artifact.session,
                      depth |-> InFlight]
    /\ last' = [op |-> "transcribe", result |-> "EngineError"]
    /\ UNCHANGED <<recording, buffer, stream, level, status, canvas, history,
                   shown, open, cb, artifact, transcripts, now, session,
                   arrived, statusAtStart>>

\* transcribe, lines 113-121: write the record, show it, refresh, return
transcribe_save ==
    /\ stack # <<>>
    /\ Top(stack).pc = "save"
    /\ LET fname == Fname(now)
           text  == Top(stack).result
           dir   == [f \in DOMAIN transcripts \cup {fname} |->
                        IF f = fname THEN text ELSE transcripts[f]]
       IN  /\ transcripts' = dir
           /\ shown' = text
           /\ history' = refresh_history(dir)
    /\ status' = "Hold to record"
    /\ stack' = Pop(stack)
    /\ last' = [op |-> "transcribe", result |-> "ok"]
    /\ UNCHANGED <<recording, buffer, stream, level, canvas, open, cb,
                   artifact, now, session, arrived, statusAtStart, lastEngine>>

\* wave_loop, lines 142-145
wave_loop ==
    /\ CanDispatch
    /\ recording
    /\ canvas' = level
    /\ UNCHANGED <<recording, buffer, stream, level, status, history, shown,
                   open, cb, artifact, transcripts, now, stack, session,
                   arrived, statusAtStart, last, lastEngine>>

\* open_history, lines 177-183
open_history ==
    /\ CanDispatch
    /\ \E sel \in 1..Len(history) : shown' = transcripts[history[sel]]
    /\ UNCHANGED <<recording, buffer, stream, level, status, canvas, history,
                   open, cb, artifact, transcripts, now, stack, session,
                   arrived, statusAtStart, last, lastEngine>>

\* datetime.now() advances.  The clock is read at line 114 only, so its
\* advance is taken where it is observed: just before the record is named.
tick ==
    /\ now < MaxClock
    /\ stack # <<>>
    /\ Top(stack).pc = "save"
    /\ now' = now + 1
    /\ UNCHANGED <<recording, buffer, stream, level, status, canvas, history,
                   shown, open, cb, artifact, transcripts, stack, session,
                   arrived, statusAtStart, last, lastEngine>>

callback_mic == \E s \in Streams, indata \in MicBlocks : callback_enter(s, indata)
callback_any == \E s \in Streams, indata \in Blocks : callback_enter(s, indata)
callback_done == \E s \in Streams : callback_append(s)

Next ==
    \/ start_record
    \/ callback_mic
    \/ callback_done
    \/ stop_record
    \/ transcribe_engine_returns
    \/ transcribe_engine_raises
    \/ transcribe_save
    \/ wave_loop
    \/ open_history
    \/ tick

Spec == Init /\ [][Next]_vars

\* One capture session with every block the device can deliver, up to the
\* hand-over to transcribe: the inputs of the waveform finalizer.
FinNext ==
    \/ (session = 0 /\ start_record)
    \/ callback_any
    \/ callback_done
    \/ stop_record

FinSpec == Init /\ [][FinNext]_vars

\* transcripts/ as n earlier saves left it, one in each of the seconds 0..n-1
OldRecords(n) ==
    [f \in {Fname(s * TicksPerSec) : s \in 0..(n - 1)} |-> "hello"]

\* The program started over a transcripts/ directory that earlier runs
\* filled, at the instant after the last of those saves (line 267 lists the
\* directory at startup).  The clock is explored up to MaxClock and stands
\* still beyond it.
HistInit ==
    /\ recording = FALSE
    /\ buffer = <<>>
    /\ stream = 0
    /\ level = 0
    /\ status = "Hold to record"
    /\ canvas = 0
    /\ \E n \in 0..MaxOld :
          /\ transcripts = OldRecords(n)
          /\ now = n * TicksPerSec
    /\ history = refresh_history(transcripts)
    /\ shown = NoText
    /\ open = {}
    /\ cb = [s \in Streams |-> NoBlock]
    /\ artifact = NoFile
    /\ stack = <<>>
    /\ session = 0
    /\ arrived = <<>>
    /\ statusAtStart = "Hold to record"
    /\ last = [op |-> "none", result |-> "none"]
    /\ lastEngine = [job |-> 0, read |-> 0, depth |-> 0]

\* one recording, transcribed and saved, and the browsing of the listing
HistNext ==
    \/ (session = 0 /\ start_record)
    \/ callback_mic
    \/ callback_done
    \/ stop_record
    \/ transcribe_engine_returns
    \/ tick
    \/ transcribe_save
    \/ open_history

HistSpec == HistInit /\ [][HistNext]_vars

\* ------------------------------------------------------------- claims

\* a step in which the topmost transcribe writes its record and returns
SaveStep == stack # <<>> /\ Top(stack).pc = "save" /\ stack' = Pop(stack)

\* a step in which model.transcribe raises out of the topmost transcribe
EngineFailStep == stack # <<>> /\ Top(stack).pc = "update" /\ stack' = Pop(stack)

\* a stop_record taken while recording with nothing in the buffer
EmptyStopStep == recording /\ buffer = <<>> /\ ~recording'

\* the largest magnitude in a non-empty sequence of samples
MaxAbs(seq) ==
    CHOOSE m \in {Abs(seq[i]) : i \in 1..Len(seq)} :
        \A i \in 1..Len(seq) : Abs(seq[i]) <= m

\* C1: at most one transcription job is in flight at any time: no transcribe
\* is entered, and the engine is never called, while an earlier transcribe
\* has not returned.
C1_AtMostOneJobInFlight == InFlight <= 1 /\ lastEngine.depth <= 1

\* C2: a save never overwrites an existing record: every save adds one
\* record and leaves the text of every earlier record as it was, also when
\* it falls in the same second as an earlier save.
C2_SaveNeverOverwrites ==
    [][SaveStep =>
          /\ Cardinality(DOMAIN transcripts') = Cardinality(DOMAIN transcripts) + 1
          /\ \A f \in DOMAIN transcripts : transcripts'[f] = transcripts[f]]_vars

\* C3: a start() while already Recording opens no second input stream: in
\* every reachable state at most one input stream is open.
C3_AtMostOneStreamOpen == Cardinality(open) <= 1

\* C4: when the input stream cannot be opened during start(), the session is
\* left Idle: the recording flag is false and the status is not Recording.
C4_FailedStartLeavesIdle ==
    last = [op |-> "start_record", result |-> "PortAudioError"]
        => (~recording /\ status # "Recording...")

\* C5: every engine invocation reads the artifact written by the capture
\* session that triggered the invocation.
C5_EngineReadsOwnArtifact == lastEngine.read = lastEngine.job

\* C6: when the engine call raises and no job is left in flight, the status
\* is back at its idle value and no longer shows Transcribing.
C6_FailureReturnsToIdle ==
    (last = [op |-> "transcribe", result |-> "EngineError"] /\ stack = <<>>)
        => status # "Transcribing..."

\* C7: a failing engine call creates or modifies no transcript record, and a
\* record changes only in the step of a transcribe whose engine call has
\* returned a text, which writes that text under the name of the instant.
C7_FailedEngineWritesNoRecord ==
    [][/\ EngineFailStep => transcripts' = transcripts
       /\ transcripts' # transcripts =>
             /\ SaveStep
             /\ Top(stack).result \in Texts
             /\ DOMAIN transcripts' = DOMAIN transcripts \cup {Fname(now)}
             /\ transcripts'[Fname(now)] = Top(stack).result
             /\ \A f \in DOMAIN transcripts \ {Fname(now)} :
                   transcripts'[f] = transcripts[f]]_vars

\* C7 witness: the engine has failed while records exist in the store
C7_Witness ==
    /\ last = [op |-> "transcribe", result |-> "EngineError"]
    /\ DOMAIN transcripts # {}

\* C8: when every sample of a non-empty recording is zero, the artifact is
\* written without dividing by the zero peak and all its samples are zero.
C8_SilenceSkipsNormalization ==
    (artifact.session # 0 /\ arrived # <<>> /\ \A i \in 1..Len(arrived) : arrived[i] = 0)
        => /\ artifact.divisor # 0
           /\ \A i \in 1..Len(artifact.samples) : artifact.samples[i] = 0

\* C9: for a recording with at least one non-zero sample the artifact holds
\* one value per arrived sample, in arrival order (each within one unit of
\* sample * 32767 / peak), and its largest magnitude is 32767.
C9_PeakNormalizedInOrder ==
    (artifact.session # 0 /\ \E i \in 1..Len(arrived) : arrived[i] # 0)
        => LET p == MaxAbs(arrived)
               out == artifact.samples
           IN  /\ Len(out) = Len(arrived)
               /\ \A i \in 1..Len(out) :
                     Abs(out[i] * p - arrived[i] * Int16Max) < p
               /\ MaxAbs(out) = Int16Max

\* C9 witness: an artifact written from two different blocks, not all zero
C9_Witness ==
    /\ artifact.session # 0
    /\ Len(buffer) = 2
    /\ buffer[1] # buffer[2]
    /\ Abs(buffer[1][1]) # Abs(buffer[2][1])
    /\ arrived = buffer[1] \o buffer[2]

\* C10: a stop() that finds no block appended since the start() writes no
\* artifact, runs no pipeline and leaves the status as it was before the
\* start().
C10_EmptyStopRestoresStatus ==
    [][EmptyStopStep =>
          /\ artifact' = artifact
          /\ stack' = stack
          /\ lastEngine' = lastEngine
          /\ status' = statusAtStart]_vars

\* C11: stop() taken while the session is Idle changes nothing: the
\* recording flag, buffer, stream, level, status, meter, listing, windows,
\* open streams, callbacks, artifact, records and the pipeline are as before,
\* and the handler ends without an error.
C11_IdleStopChangesNothing ==
    [][(~recording /\ last'.op = "stop_record" /\ last' # last) =>
          /\ last'.result = "noop"
          /\ UNCHANGED <<recording, buffer, stream, level, status, canvas,
                         history, shown, open, cb, artifact, transcripts,
                         stack, lastEngine>>]_vars

\* C11 witness: an idle stop() after a completed session, with the blocks of
\* that session still in the buffer and its artifact on disk
C11_Witness ==
    /\ last = [op |-> "stop_record", result |-> "noop"]
    /\ buffer # <<>>
    /\ artifact.session # 0

\* C12: under the non-decreasing clock, when a save completes the first
\* entry of the listing is the identifier of the record just written, and
\* the record read under that identifier holds exactly the saved text.
C12_SaveListReadRoundTrip ==
    [][SaveStep =>
          /\ history' # <<>>
          /\ history'[1] = Fname(now)
          /\ transcripts'[history'[1]] = Top(stack).result]_vars

\* C12 witness: a save has just completed into a store that holds an older
\* record with another text
C12_Witness ==
    /\ last = [op |-> "transcribe", result |-> "ok"]
    /\ Len(history) = 2
    /\ transcripts[history[1]] # transcripts[history[2]]

\* C13: in every reachable state the history listing holds at most 10
\* identifiers, in strictly descending order (so without duplicates), all of
\* them records of the store, and every record it leaves out is older than
\* each of the 10 it holds.
C13_HistoryIsNewestTen ==
    /\ Len(history) <= 10
    /\ \A i \in 1..(Len(history) - 1) : LexLess(history[i + 1], history[i])
    /\ \A i \in 1..Len(history) : history[i] \in DOMAIN transcripts
    /\ \A f \in DOMAIN transcripts :
          (\A i \in 1..Len(history) : history[i] # f)
              => /\ Len(history) = 10
                 /\ \A i \in 1..Len(history) : LexLess(f, history[i])

\* C13 witness: a save has just been listed in a store of more than ten
\* records
C13_Witness ==
    /\ last = [op |-> "transcribe", result |-> "ok"]
    /\ Cardinality(DOMAIN transcripts) > 10
    /\ history[1] = Fname(now)

\* C14: while a transcription job is in flight no start() takes effect: no
\* step taken with a transcribe on the stack sets the recording flag or opens
\* an input stream.
C14_NoStartWhileInFlight ==
    [][InFlight > 0 => ((recording' => recording) /\ open' \subseteq open)]_vars

\* C15: the sequence handed to finalize holds every block appended in the
\* session exactly once, and no append follows the read of the buffer: once
\* the session's artifact is written and the session is Idle, the artifact
\* has one value for each sample that arrived in the session.
C15_HandoffTakesEveryBlockOnce ==
    (session # 0 /\ artifact.session = session /\ ~recording)
        => Len(artifact.samples) = Len(arrived)

C17_LevelResetOnStop == [][(recording /\ ~recording') => level' = 0]_vars

\* n / d rounded to the nearest integer, a tie going to the even neighbour
RoundNearest(n, d) ==
    LET q == Abs(n) \div d
        r == Abs(n) % d
        m == IF 2 * r > d \/ (2 * r = d /\ q % 2 = 1) THEN q + 1 ELSE q
    IN  IF n < 0 THEN 0 - m ELSE m

\* C18: for a recording with non-zero peak p every stored value is
\* sample * 32767 / p rounded to the nearest integer and lies within
\* [-32768, 32767].
C18_QuantizeRoundsToNearest ==
    (artifact.session # 0 /\ \E i \in 1..Len(arrived) : arrived[i] # 0)
        => /\ Len(artifact.samples) = Len(arrived)
           /\ \A i \in 1..Len(arrived) :
                 /\ artifact.samples[i] =
                       RoundNearest(arrived[i] * 32767, MaxAbs(arrived))
                 /\ artifact.samples[i] >= -32768
                 /\ artifact.samples[i] <= 32767

\* C19: in every reachable state the status is "Recording..." exactly when
\* the recording flag is true.
C19_StatusAgreesWithRecording == (status = "Recording...") <=> recording

=============================================================================
